---- MODULE Spec2Model ----
(***************************************************************************)
(* Model of src/revenue.py: the Netflix revenue forecasting script.        *)
(* One run of the script is a sequence of stages (clean the four sheets,   *)
(* merge them, show the data, build the Prophet frame, read the slider,    *)
(* fit, predict, plot, extract the insights, export), all inside one       *)
(* try/except that turns any exception into one st.error message.          *)
(*                                                                         *)
(* Representation.                                                         *)
(*   cell      <<"str", chars>> (chars a sequence of one-character         *)
(*             strings) or <<"num", d>> with d a decimal                   *)
(*   decimal   [m |-> mantissa, e |-> decimals], the number m / 10^e,      *)
(*             normalised (no trailing zero in the fraction)               *)
(*   sheet     a sequence of rows <<Year, cell>>; after cleaning every     *)
(*             cell is a "num" cell                                        *)
(*   date      proleptic Gregorian day ordinal (0001-01-01 is day 1)       *)
(***************************************************************************)
EXTENDS Integers, Sequences, FiniteSets, TLC

VARIABLES
    pc,            \* the stage the script is about to execute
    revenue_df,    \* sheet 'Netflix annual revenue 2011 to '
    subs_df,       \* sheet 'Netflix annual subscribers 2011'
    content_df,    \* sheet 'Netflix annual content spend ($'
    income_df,     \* sheet 'Netflix annual net incomeloss ('
    df,            \* the merged frame, rows <<Year, Revenue, Subs, Content, Income>>
    prophet_df,    \* rows <<ds, y>>
    forecast_years,\* the slider's value (0 before the slider is read)
    model,         \* the Prophet object: [fitted, history_dates, slope]
    forecast,      \* rows <<ds, yhat, yhat_lower, yhat_upper>>
    annual_pred,   \* Year -> rounded mean of yhat, as a function
    emitted,       \* what the run has put on the page, in order
    error          \* the exception the except clause caught, or NoError

vars == <<pc, revenue_df, subs_df, content_df, income_df, df, prophet_df,
          forecast_years, model, forecast, annual_pred, emitted, error>>

-----------------------------------------------------------------------------
(* Bounds of the model and constants of the program *)

MaxRows == 2          \* rows per input sheet

SliderMin == 1        \* st.slider(..., 1, 10, 5)
SliderMax == 10
DaysPerYear == 365    \* periods = forecast_years * 365

NoError == [kind |-> "none", stage |-> "none"]

-----------------------------------------------------------------------------
(* Generic sequence helpers *)

SeqsUpTo(S, n) == UNION {[1..k -> S] : k \in 0..n}

-----------------------------------------------------------------------------
(* clean_currency: col.replace('[\$,]', '', regex=True).astype(float) *)

Digits == {"0", "1", "2", "3", "4", "5", "6", "7", "8", "9"}

DigitVal(c) ==
    CASE c = "0" -> 0 [] c = "1" -> 1 [] c = "2" -> 2 [] c = "3" -> 3
      [] c = "4" -> 4 [] c = "5" -> 5 [] c = "6" -> 6 [] c = "7" -> 7
      [] c = "8" -> 8 [] c = "9" -> 9

\* a decimal without trailing zeros in its fraction
RECURSIVE Norm(_)
Norm(d) == IF d.e > 0 /\ d.m % 10 = 0
           THEN Norm([m |-> d.m \div 10, e |-> d.e - 1])
           ELSE d

\* the character class [\$,] of the regular expression
StrippedOnlyDollar == {"$"}
Stripped == {"$", ","}

\* re.sub('[\$,]', '', s): every occurrence is removed, wherever it stands
RegexReplace(s) == SelectSeq(s, LAMBDA c : c \notin Stripped)

\* the value of a run of digits, most significant first
RECURSIVE DigitsValue(_)
DigitsValue(s) ==
    IF s = <<>> THEN 0
    ELSE 10 * DigitsValue(SubSeq(s, 1, Len(s) - 1)) + DigitVal(s[Len(s)])

\* float(s) accepts (over the characters of the model) digits with at most
\* one decimal point and at least one digit; anything else is a ValueError
FloatParses(s) ==
    /\ \A i \in 1..Len(s) : s[i] \in Digits \cup {"."}
    /\ Cardinality({i \in 1..Len(s) : s[i] = "."}) <= 1
    /\ \E i \in 1..Len(s) : s[i] \in Digits

FloatOf(s) ==
    LET ds   == SelectSeq(s, LAMBDA c : c \in Digits)
        dots == {i \in 1..Len(s) : s[i] = "."}
        frac == IF dots = {} THEN 0 ELSE Len(s) - (CHOOSE i \in dots : TRUE)
    IN  Norm([m |-> DigitsValue(ds), e |-> frac])

\* one cell through replace + astype(float): strings are rewritten and
\* parsed, numbers pass through; what comes out is a number
CellParses(c) == c[1] = "num" \/ FloatParses(RegexReplace(c[2]))

CellValue(c) ==
    IF c[1] = "num" THEN <<"num", Norm(c[2])>>
    ELSE <<"num", FloatOf(RegexReplace(c[2]))>>

\* clean_currency on a sheet's value column: astype raises on the first
\* cell that does not parse and the column is not assigned
ColumnParses(sheet) == \A i \in 1..Len(sheet) : CellParses(sheet[i][2])

clean_currency(sheet) == [i \in 1..Len(sheet) |-> <<sheet[i][1], CellValue(sheet[i][2])>>]

-----------------------------------------------------------------------------
(* DataFrame.merge(right, on='Year'): how='inner', sort=False *)

\* the rows of right that match one left row, in right's order, each
\* appended to the left row
MatchesAnyKey(l, right) == [i \in 1..Len(right) |-> Append(l, right[i][2])]

Matches(l, right) ==
    LET hits == SelectSeq(right, LAMBDA r : r[1] = l[1])
    IN  [i \in 1..Len(hits) |-> Append(l, hits[i][2])]

\* the left frame's order is kept; a key that occurs n times on the left
\* and m times on the right gives n*m rows
RECURSIVE merge(_, _)
merge(left, right) ==
    IF left = <<>> THEN <<>>
    ELSE Matches(Head(left), right) \o merge(Tail(left), right)

Keys(sheet) == {sheet[i][1] : i \in 1..Len(sheet)}

-----------------------------------------------------------------------------
(* Calendar: pd.to_datetime(Year, format='%Y') and Series.dt.year *)

DaysBeforeYear(y) ==
    LET p == y - 1 IN 365 * p + (p \div 4) - (p \div 100) + (p \div 400)

\* format='%Y' leaves month and day at their defaults: January 1
to_datetime(y) == DaysBeforeYear(y) + 1

\* the year of a day ordinal, by the 400/100/4/1-year cycles
dt_year(d) ==
    LET n0   == d - 1
        n400 == n0 \div 146097
        r400 == n0 % 146097
        n100 == r400 \div 36524
        r100 == r400 % 36524
        n4   == r100 \div 1461
        r4   == r100 % 1461
        n1   == r4 \div 365
        y    == 400 * n400 + 100 * n100 + 4 * n4 + n1 + 1
    IN  IF n1 = 4 \/ n100 = 4 THEN y - 1 ELSE y

-----------------------------------------------------------------------------
(* Prophet, as far as the script relies on it *)

\* the trends the fitted model may have (the fit itself is opaque)
Slopes == {-1, 3}

RECURSIVE SortedSeq(_)
SortedSeq(S) ==
    IF S = {} THEN <<>>
    ELSE LET lo == CHOOSE x \in S : \A z \in S : x <= z
         IN  <<lo>> \o SortedSeq(S \ {lo})

HistoryDates(pdf) == SortedSeq({pdf[i][1] : i \in 1..Len(pdf)})

\* Prophet.fit raises ValueError('Dataframe has less than 2 non-NaN rows.')
FitRaises(pdf) == Len(pdf) < 2

\* periods = forecast_years * 365
periodsExtraYear(fy) == (fy + 1) * DaysPerYear

periods(fy) == fy * DaysPerYear

\* make_future_dataframe(periods, freq='D'): the history dates followed by
\* the periods days after the last of them
make_future_dataframe(m, n) ==
    LET h    == m.history_dates
        last == h[Len(h)]
    IN  h \o [i \in 1..n |-> last + i]

\* predict: one row <<ds, yhat, yhat_lower, yhat_upper>> per date
yhat(m, ds) == 1000 + m.slope * (ds - m.history_dates[1])

predict(m, future) ==
    [i \in 1..Len(future) |->
        LET v == yhat(m, future[i]) IN <<future[i], v, v - 50, v + 50>>]

-----------------------------------------------------------------------------
(* Forecast insights *)

\* df['Year'].max()
latest_year(frame) == CHOOSE y \in Keys(frame) : \A z \in Keys(frame) : z <= y

\* forecast_out[forecast_out['Year'] > latest_year]
FutureFilterInclusive(year, latest) == year >= latest

FutureFilter(year, latest) == year > latest

\* numpy's round: to the nearest integer, halves to the even neighbour
RoundMean(total, n) ==
    LET q == total \div n
        r == total % n
    IN  IF 2 * r < n THEN q
        ELSE IF 2 * r > n THEN q + 1
        ELSE IF q % 2 = 0 THEN q ELSE q + 1

\* the sum of the yhat column over rows lo..hi (halving keeps the nesting shallow)
RECURSIVE SumYhat(_, _, _)
SumYhat(rows, lo, hi) ==
    IF lo > hi THEN 0
    ELSE IF lo = hi THEN rows[lo][2]
    ELSE LET mid == (lo + hi) \div 2
         IN  SumYhat(rows, lo, mid) + SumYhat(rows, mid + 1, hi)

\* forecast_out['Year'] = forecast_out['ds'].dt.year
WithYear(fc) ==
    SelectSeq([i \in 1..Len(fc) |-> Append(fc[i], dt_year(fc[i][1]))],
              LAMBDA r : TRUE)

\* future_forecast.groupby('Year')['yhat'].mean().round(): one entry per
\* year that has a row, the rounded mean of that year's rows
GroupMeans(ff) ==
    [k \in {ff[i][5] : i \in 1..Len(ff)} |->
        LET rows == SelectSeq(ff, LAMBDA r : r[5] = k)
        IN  RoundMean(SumYhat(rows, 1, Len(rows)), Len(rows))]

\* lines 89-96 together
future_forecast(forecast_out, latest) ==
    SelectSeq(forecast_out, LAMBDA r : FutureFilter(r[5], latest))

AnnualPred(fc, latest) == GroupMeans(future_forecast(WithYear(fc), latest))

\* next_year = latest_year + 1
next_year(latest) == latest + 1

\* Series.idxmax / idxmin: the first label (ascending Year) with the
\* greatest / least value; on an empty Series they raise ValueError
idxmax(ap) ==
    CHOOSE k \in DOMAIN ap :
        /\ \A j \in DOMAIN ap : ap[j] <= ap[k]
        /\ \A j \in DOMAIN ap : ap[j] = ap[k] => k <= j

idxmin(ap) ==
    CHOOSE k \in DOMAIN ap :
        /\ \A j \in DOMAIN ap : ap[j] >= ap[k]
        /\ \A j \in DOMAIN ap : ap[j] = ap[k] => k <= j

-----------------------------------------------------------------------------
(* The script, stage by stage *)

NoModel == [fitted |-> FALSE, history_dates |-> <<>>, slope |-> 0]
NoPred == [k \in {} |-> 0]

\* except Exception as e: st.error(...)
Raise(kind, stage) ==
    /\ pc' = "failed"
    /\ error' = [kind |-> kind, stage |-> stage]
    /\ emitted' = Append(emitted, <<"error">>)

\* lines 45-48: the four columns are cleaned in turn; the first column
\* that does not parse raises and the later ones are left as read
Clean ==
    /\ pc = "clean"
    /\ revenue_df' = IF ColumnParses(revenue_df)
                     THEN clean_currency(revenue_df) ELSE revenue_df
    /\ subs_df' = IF ColumnParses(revenue_df) /\ ColumnParses(subs_df)
                  THEN clean_currency(subs_df) ELSE subs_df
    /\ content_df' = IF /\ ColumnParses(revenue_df) /\ ColumnParses(subs_df)
                        /\ ColumnParses(content_df)
                     THEN clean_currency(content_df) ELSE content_df
    /\ income_df' = IF /\ ColumnParses(revenue_df) /\ ColumnParses(subs_df)
                       /\ ColumnParses(content_df) /\ ColumnParses(income_df)
                    THEN clean_currency(income_df) ELSE income_df
    /\ IF /\ ColumnParses(revenue_df) /\ ColumnParses(subs_df)
          /\ ColumnParses(content_df) /\ ColumnParses(income_df)
       THEN pc' = "merge" /\ UNCHANGED <<error, emitted>>
       ELSE Raise("ValueError", "clean")
    /\ UNCHANGED <<df, prophet_df, forecast_years, model, forecast, annual_pred>>

\* lines 51-53: three successive inner joins on Year; merge never raises
Merge ==
    /\ pc = "merge"
    /\ df' = merge(merge(merge(revenue_df, subs_df), content_df), income_df)
    /\ pc' = "show"
    /\ UNCHANGED <<revenue_df, subs_df, content_df, income_df, prophet_df,
                   forecast_years, model, forecast, annual_pred, emitted, error>>

\* lines 56-61: the merged table and the revenue chart go to the page
Show ==
    /\ pc = "show"
    /\ emitted' = emitted \o <<(<<"dataframe">>), (<<"line_chart">>)>>
    /\ pc' = "prepare"
    /\ UNCHANGED <<revenue_df, subs_df, content_df, income_df, df, prophet_df,
                   forecast_years, model, forecast, annual_pred, error>>

\* lines 64-67: ds = January 1 of Year, y = Revenue; no check on the size
Prepare ==
    /\ pc = "prepare"
    /\ prophet_df' = [i \in 1..Len(df) |-> <<to_datetime(df[i][1]), df[i][2]>>]
    /\ pc' = "slider"
    /\ UNCHANGED <<revenue_df, subs_df, content_df, income_df, df,
                   forecast_years, model, forecast, annual_pred, emitted, error>>

\* line 70: the slider only ever yields a value between its two ends
Slider ==
    /\ pc = "slider"
    /\ \E v \in SliderMin..SliderMax : forecast_years' = v
    /\ pc' = "fit"
    /\ UNCHANGED <<revenue_df, subs_df, content_df, income_df, df, prophet_df,
                   model, forecast, annual_pred, emitted, error>>

\* lines 73-74: the fit raises on a short history; otherwise the model is
\* fitted, with one of the trends
Fit ==
    /\ pc = "fit"
    /\ \/ /\ FitRaises(prophet_df)
          /\ Raise("ValueError", "fit")
          /\ UNCHANGED model
       \/ /\ ~FitRaises(prophet_df)
          /\ \E s \in Slopes :
                model' = [fitted |-> TRUE,
                          history_dates |-> HistoryDates(prophet_df),
                          slope |-> s]
          /\ pc' = "predict"
          /\ UNCHANGED <<error, emitted>>
    /\ UNCHANGED <<revenue_df, subs_df, content_df, income_df, df, prophet_df,
                   forecast_years, forecast, annual_pred>>

\* lines 76-82: the future frame, the prediction and its plot
Predict ==
    /\ pc = "predict"
    /\ forecast' = predict(model, make_future_dataframe(model, periods(forecast_years)))
    /\ emitted' = Append(emitted, <<"forecast_plot">>)
    /\ pc' = "insight"
    /\ UNCHANGED <<revenue_df, subs_df, content_df, income_df, df, prophet_df,
                   forecast_years, model, annual_pred, error>>

\* lines 85-119: the next-year line is written only when the key exists;
\* idxmax raises on an empty Series, after the header (and the next-year
\* line, had there been one); otherwise the highest and lowest years, the
\* components and the CSV download follow, none of which can raise
Insight ==
    /\ pc = "insight"
    /\ LET ap == AnnualPred(forecast, latest_year(df))
           ny == next_year(latest_year(df))
           nx == IF ny \in DOMAIN ap
                 THEN <<(<<"next_year", ny, ap[ny]>>)>> ELSE <<>>
       IN  /\ annual_pred' = ap
           /\ IF DOMAIN ap = {}
              THEN /\ pc' = "failed"
                   /\ error' = [kind |-> "ValueError", stage |-> "insight"]
                   /\ emitted' = emitted \o <<(<<"insights_header">>)>> \o nx
                                         \o <<(<<"error">>)>>
              ELSE /\ pc' = "done"
                   /\ emitted' = emitted \o <<(<<"insights_header">>)>> \o nx
                          \o <<(<<"highest", idxmax(ap), ap[idxmax(ap)]>>),
                               (<<"lowest", idxmin(ap), ap[idxmin(ap)]>>),
                               (<<"components">>),
                               (<<"download", Len(forecast)>>)>>
                   /\ UNCHANGED error
    /\ UNCHANGED <<revenue_df, subs_df, content_df, income_df, df, prophet_df,
                   forecast_years, model, forecast>>

-----------------------------------------------------------------------------
(* Inputs *)

DigitChar(d) ==
    CASE d = 0 -> "0" [] d = 1 -> "1" [] d = 2 -> "2" [] d = 3 -> "3"
      [] d = 4 -> "4" [] d = 5 -> "5" [] d = 6 -> "6" [] d = 7 -> "7"
      [] d = 8 -> "8" [] d = 9 -> "9"

RECURSIVE DigitsOf(_)
DigitsOf(n) ==
    IF n < 10 THEN <<DigitChar(n)>>
    ELSE Append(DigitsOf(n \div 10), DigitChar(n % 10))

\* cells as they come out of the workbook, one per year for each sheet:
\* revenue "$19,500", subscribers the number 19.5, content spend
\* "$1,019.5", net income "190" (for 2019)
RawCell(t, y) ==
    LET n == DigitsOf(y - 2000)
    IN  CASE t = 1 -> <<"str", <<"$">> \o n \o <<",", "5", "0", "0">>>>
          [] t = 2 -> <<"num", [m |-> 10 * (y - 2000) + 5, e |-> 1]>>
          [] t = 3 -> <<"str", <<"$", "1", ",">> \o DigitsOf(y - 1000) \o <<".", "5">>>>
          [] OTHER -> <<"str", n \o <<"0">>>>

BadCell == <<"str", <<"$", "1", "x">>>>

\* a sheet with the given keys; bad marks the sheet whose first cell is malformed
Sheet(t, ks, bad) ==
    [i \in 1..Len(ks) |->
        <<ks[i], IF bad = t /\ i = 1 THEN BadCell ELSE RawCell(t, ks[i])>>]

\* the first year of the workbook; its sheets cover that year and the next
StartYears == {2019, 2020, 2099}
YearsFrom(y0) == {y0, y0 + 1}

\* key columns: any rows in any order; rows in any order without
\* repetition; ascending without repetition
AnyKeys(Y) == SeqsUpTo(Y, MaxRows)
UniqueKeys(Y) == {ks \in AnyKeys(Y) : Cardinality({ks[i] : i \in 1..Len(ks)}) = Len(ks)}
AscKeys(Y) == {SortedSeq(S) : S \in {T \in SUBSET Y : Cardinality(T) <= MaxRows}}

\* a run of the whole script: the revenue sheet holds its years once each
\* in any order, the other three hold theirs once each, ascending; at most
\* one sheet has a malformed cell.  (Repeated keys are the subject of
\* SpecMerge.)
Init ==
    /\ pc = "clean"
    /\ \E y0 \in StartYears :
       \E bad \in 0..4 :
       \E kr \in UniqueKeys(YearsFrom(y0)) :
       \E ks \in AscKeys(YearsFrom(y0)), kc \in AscKeys(YearsFrom(y0)),
          ki \in AscKeys(YearsFrom(y0)) :
          /\ revenue_df = Sheet(1, kr, bad)
          /\ subs_df = Sheet(2, ks, bad)
          /\ content_df = Sheet(3, kc, bad)
          /\ income_df = Sheet(4, ki, bad)
    /\ df = <<>>
    /\ prophet_df = <<>>
    /\ forecast_years = 0
    /\ model = NoModel
    /\ forecast = <<>>
    /\ annual_pred = NoPred
    /\ emitted = <<>>
    /\ error = NoError

Next ==
    \/ Clean \/ Merge \/ Show \/ Prepare \/ Slider
    \/ Fit \/ Predict \/ Insight

Spec == Init /\ [][Next]_vars

-----------------------------------------------------------------------------
(* The reconciler alone: four cleaned sheets, any keys in any order *)

MergeYears == YearsFrom(2019)

\* a cleaned sheet; the value tells the sheet and the row it came from
CleanSheet(t, ks) ==
    [i \in 1..Len(ks) |-> <<ks[i], <<"num", [m |-> 10 * t + i, e |-> 0]>>>>]

InitMerge ==
    /\ pc = "merge"
    /\ \E kr \in AnyKeys(MergeYears), ks \in AnyKeys(MergeYears),
          kc \in AnyKeys(MergeYears), ki \in AnyKeys(MergeYears) :
          /\ revenue_df = CleanSheet(1, kr)
          /\ subs_df = CleanSheet(2, ks)
          /\ content_df = CleanSheet(3, kc)
          /\ income_df = CleanSheet(4, ki)
    /\ df = <<>>
    /\ prophet_df = <<>>
    /\ forecast_years = 0
    /\ model = NoModel
    /\ forecast = <<>>
    /\ annual_pred = NoPred
    /\ emitted = <<>>
    /\ error = NoError

NextMerge == Merge

SpecMerge == InitMerge /\ [][NextMerge]_vars

-----------------------------------------------------------------------------
(* The currency normalizer alone: columns of sample cells *)

Cell1234_5 == <<"str", <<"$", "1", ",", "2", "3", "4", ".", "5">>>>
Cell12 == <<"str", <<"1", "2">>>>
Cell1_50 == <<"str", <<"1", ".", "5", "0">>>>
CellRepeated == <<"str", <<"$", "$", "7", ",", ",", "0">>>>
CellNumber == <<"num", [m |-> 42, e |-> 0]>>
CellEmptied == <<"str", <<"$", ",">>>>
CellLetter == <<"str", <<"1", "x">>>>
CellTwoDots == <<"str", <<"1", ".", "2", ".", "3">>>>

SampleCells == {Cell1234_5, Cell12, Cell1_50, CellRepeated, CellNumber,
                CellEmptied, CellLetter, CellTwoDots}

\* a sheet whose i-th row is year 2010 + i with the i-th cell of the column
ColumnSheet(col) == [i \in 1..Len(col) |-> <<2010 + i, col[i]>>]

InitClean ==
    /\ pc = "clean"
    /\ \E cr \in SeqsUpTo(SampleCells, MaxRows) :
       \E cs \in SeqsUpTo({CellNumber, CellLetter}, MaxRows) :
          /\ revenue_df = ColumnSheet(cr)
          /\ subs_df = ColumnSheet(cs)
    /\ content_df = ColumnSheet(<<Cell12>>)
    /\ income_df = ColumnSheet(<<CellRepeated>>)
    /\ df = <<>>
    /\ prophet_df = <<>>
    /\ forecast_years = 0
    /\ model = NoModel
    /\ forecast = <<>>
    /\ annual_pred = NoPred
    /\ emitted = <<>>
    /\ error = NoError

NextClean == Clean

SpecClean == InitClean /\ [][NextClean]_vars

-----------------------------------------------------------------------------
(* Properties *)

Sheets == <<revenue_df, subs_df, content_df, income_df>>

HasDuplicateKey(sheet) == \E i, j \in 1..Len(sheet) : i # j /\ sheet[i][1] = sheet[j][1]

UniqueInputs == \A t \in 1..4 : ~HasDuplicateKey(Sheets[t])

CommonKeys == Keys(revenue_df) \cap Keys(subs_df) \cap Keys(content_df) \cap Keys(income_df)

\* C1: when no sheet repeats a key, the years of the merged frame are exactly
\* the years present in all four sheets
C1_KeysAreIntersection ==
    (pc = "show" /\ UniqueInputs) => Keys(df) = CommonKeys

\* a merge that drops 2019, which the content sheet lacks, and keeps 2020
C1_Witness ==
    /\ pc = "show"
    /\ UniqueInputs
    /\ Keys(revenue_df) = {2019, 2020}
    /\ Keys(subs_df) = {2019, 2020}
    /\ Keys(content_df) = {2020}
    /\ Keys(income_df) = {2019, 2020}
    /\ Keys(df) = {2020}

\* some sheet holds twice a year that all four sheets hold
RepeatedCommonKey ==
    \E t \in 1..4 : \E i, j \in 1..Len(Sheets[t]) :
        i # j /\ Sheets[t][i][1] = Sheets[t][j][1] /\ Sheets[t][i][1] \in CommonKeys

\* C2: once the reconciler has run on sheets of which one repeats a key, the
\* run has failed with DuplicateKeyError and no merged frame holds several
\* rows for one year
C2_DuplicateKeyRejected ==
    (pc = "show" /\ RepeatedCommonKey) =>
        /\ error.kind = "DuplicateKeyError"
        /\ ~HasDuplicateKey(df)

\* C3: every year of annual_pred is later than the latest year of the data
C3_OnlyFutureYears ==
    \A k \in DOMAIN annual_pred : k > latest_year(df)

\* a finished run whose forecast holds a future point dated in the latest
\* known year (the day after the last observation)
C3_Witness ==
    /\ pc = "done"
    /\ DOMAIN annual_pred # {}
    /\ LET r == forecast[Len(model.history_dates) + 1]
       IN  /\ r[1] > model.history_dates[Len(model.history_dates)]
           /\ dt_year(r[1]) = latest_year(df)

\* C4: a run never fails in the insight step while annual_pred has no entry
\* for the year after the latest year of the data
C4_AbsentNextYearIsNoError ==
    (pc = "failed" /\ error.stage = "insight") =>
        next_year(latest_year(df)) \in DOMAIN annual_pred

\* C5: every year k of annual_pred has L < k <= L + forecast_years, and the
\* next-year line, when written, shows year L + 1 with annual_pred[L + 1]
C5_KeysWithinHorizon ==
    /\ \A k \in DOMAIN annual_pred :
          /\ latest_year(df) < k
          /\ k <= latest_year(df) + forecast_years
    /\ \A i \in 1..Len(emitted) :
          emitted[i][1] = "next_year" =>
             /\ emitted[i][2] = latest_year(df) + 1
             /\ emitted[i][2] \in DOMAIN annual_pred
             /\ emitted[i][3] = annual_pred[emitted[i][2]]

\* a finished two-year forecast with both years summarised and the
\* next-year line written
C5_Witness ==
    /\ pc = "done"
    /\ forecast_years = 2
    /\ DOMAIN annual_pred = {latest_year(df) + 1, latest_year(df) + 2}
    /\ \E i \in 1..Len(emitted) : emitted[i][1] = "next_year"

\* C6: a failed run has put nothing on the page but its one error, and a
\* finished run has its forecast, its insights and its download
C6_AllOrNothing ==
    /\ pc = "failed" => emitted = <<(<<"error">>)>>
    /\ pc = "done" =>
          /\ forecast # <<>>
          /\ \E i \in 1..Len(emitted) : emitted[i][1] = "highest"
          /\ \E i \in 1..Len(emitted) : emitted[i][1] = "download"

ValidHistory == Len(df) >= 2 /\ ~HasDuplicateKey(df)

\* C7: once the slider is read, a horizon outside 1..10 has been rejected
\* with InvalidHorizonError, and with a horizon of 1 or 10 a run on a valid
\* history does not fail
C7_HorizonBounds ==
    /\ (pc \notin {"clean", "merge", "show", "prepare", "slider"}
           /\ error.stage # "clean"
           /\ forecast_years \notin SliderMin..SliderMax) =>
          (pc = "failed" /\ error.kind = "InvalidHorizonError")
    /\ (forecast_years \in {SliderMin, SliderMax} /\ ValidHistory) =>
          pc # "failed"

\* C8: once the Prophet frame is built with fewer than 2 rows, the run has
\* failed with InsufficientHistoryError raised while building it
C8_InsufficientHistory ==
    (pc \notin {"clean", "merge", "show", "prepare"} /\ error.stage # "clean"
        /\ Len(prophet_df) < 2) =>
        /\ pc = "failed"
        /\ error.kind = "InsufficientHistoryError"
        /\ error.stage = "prepare"

\* C9: the rows of the merged frame are in ascending order of Year
C9_AscendingOrder ==
    pc = "show" => \A i, j \in 1..Len(df) : i < j => df[i][1] <= df[j][1]

\* what each sample cell is worth as a number, worked out by hand
ExpectedFloat(c) ==
    CASE c = Cell1234_5   -> [ok |-> TRUE,  v |-> [m |-> 12345, e |-> 1]]
      [] c = Cell12       -> [ok |-> TRUE,  v |-> [m |-> 12, e |-> 0]]
      [] c = Cell1_50     -> [ok |-> TRUE,  v |-> [m |-> 15, e |-> 1]]
      [] c = CellRepeated -> [ok |-> TRUE,  v |-> [m |-> 70, e |-> 0]]
      [] c = CellNumber   -> [ok |-> TRUE,  v |-> [m |-> 42, e |-> 0]]
      [] c = CellEmptied  -> [ok |-> FALSE, v |-> [m |-> 0, e |-> 0]]
      [] c = CellLetter   -> [ok |-> FALSE, v |-> [m |-> 0, e |-> 0]]
      [] c = CellTwoDots  -> [ok |-> FALSE, v |-> [m |-> 0, e |-> 0]]

ExpectedOk(sheet) == \A i \in 1..Len(sheet) : ExpectedFloat(sheet[i][2]).ok

ExpectedSheet(sheet) ==
    [i \in 1..Len(sheet) |-> <<sheet[i][1], <<"num", ExpectedFloat(sheet[i][2]).v>>>>]

\* C10: cleaning is all-or-nothing per sheet.  When every cell of the four
\* sheets is a number once '$' and ',' are taken out, each sheet comes out
\* with the same rows in the same order, each value the number its cell
\* spells; otherwise the run fails, nothing is merged, the sheets before
\* the first bad one are cleaned whole and that sheet and the later ones
\* are left exactly as read
C10_CleanAllOrNothing ==
    [][pc = "clean" =>
        LET old == Sheets
            new == <<revenue_df', subs_df', content_df', income_df'>>
            bad == {t \in 1..4 : ~ExpectedOk(old[t])}
        IN  IF bad = {}
            THEN /\ pc' = "merge"
                 /\ \A t \in 1..4 : new[t] = ExpectedSheet(old[t])
            ELSE /\ pc' = "failed"
                 /\ df' = <<>>
                 /\ \A t \in 1..4 :
                       IF \E b \in bad : b <= t
                       THEN new[t] = old[t]
                       ELSE new[t] = ExpectedSheet(old[t])
    ]_vars

\* a failed run whose revenue sheet still holds, as read, a good cell next
\* to the bad one that made the column fail
C10_Witness ==
    /\ pc = "failed"
    /\ error.stage = "clean"
    /\ Len(revenue_df) = 2
    /\ revenue_df[1][2] = Cell1234_5
    /\ revenue_df[2][2] = CellLetter
    /\ df = <<>>

====
